---- MODULE Spec2Model ----
(***************************************************************************)
(* Route safety scoring and fastest/safest selection of the safe-route     *)
(* client (src/safe-route/src/components/RouteSearch.tsx), its map and     *)
(* history, and the listing popup that opens it                            *)
(* (src/frontend/src/route-planner.ts).                                    *)
(*                                                                         *)
(* Numbers.  Latitudes and longitudes are counted in units of 0.001        *)
(* degree, so the default radius 0.005 is 5.  Math.sqrt is monotone on     *)
(* non-negative numbers, so a distance is kept as its square and compared  *)
(* with the square of the radius.  Scores are exact fractions [n, d] with  *)
(* d > 0 (the code computes them in double precision).  NaN is the value   *)
(* NaN; every comparison with NaN is false, as in JavaScript.              *)
(*                                                                         *)
(* Strings that the code inspects (categories, descriptions, coordinate    *)
(* texts) are sequences of one-character strings.                          *)
(***************************************************************************)
EXTENDS Integers, Sequences, FiniteSets, TLC

VARIABLES
    crimeData,          \* useState<CrimeData[]>: the incident records
    crimeFetched,       \* the mount effect's fetch has settled
    startLocation,      \* useState: origin text
    endLocation,        \* useState: destination text
    transportMode,      \* useState<TransportMode>
    isCalculating,      \* useState: a planning request is running
    pc,                 \* where the running calculateRoute is suspended
    startResp,          \* calculateRoute local: the origin's geocoding response
    endResp,            \* calculateRoute local: the destination's response
    closure,            \* the state captured by the running calculateRoute
    routesData,         \* calculateRoute local: the routing response's pool
    processedRoutes,    \* calculateRoute local: the scored alternatives
    fastestRoute,       \* calculateRoute local: reference into processedRoutes
    safestRoute,        \* calculateRoute local: reference into processedRoutes
    defaultRoute,       \* calculateRoute local: reference into processedRoutes
    routes,             \* useState: the emitted list (finalRoutes)
    selectedRouteIndex, \* useState
    startMarkerRef,     \* useRef: the start marker is on the map
    endMarkerRef,       \* useRef: the end marker is on the map
    savedRoutes,        \* useState: the history, most recent first
    clock,              \* Date.now(), in steps since mount
    call,               \* the last direct call of a scoring function
    autoStart,          \* the URL effect's delayed calculateRoute call
    polylines,          \* the route polylines among the map's layers
    currentRouteRef,    \* useRef: the polyline drawn last, 0 for null
    drawTimers,         \* displayRoute's delayed draws that are pending
    routeInfo,          \* useState<RouteInfo | null>
    attempts,           \* extractAddressAndRooms: the promise's counter
    settled,            \* extractAddressAndRooms: the promise's state
    timeouts,           \* attempts whose 5-second timeout is armed
    replies,            \* attempts whose sendMessage callback has not run
    retries,            \* pending 1-second timers of attemptMessage
    rawAddress,         \* popup useState: the listing's address
    borough,            \* popup useState: the listing's borough
    lastSafetyAddressRef,  \* popup useRef
    lastSafetyBoroughRef,  \* popup useRef
    safetyTimer,        \* the safety effect's pending 100 ms timer
    safetyCalls,        \* the getSafetyAnalysis invocations, in order
    safetyRequestRef,   \* popup useRef: the newest AbortController
    safetyData,         \* popup useState<SafetyAnalysis | null>
    safetyLoading,      \* popup useState
    safetyError         \* popup useState

vars == <<crimeData, crimeFetched, startLocation, endLocation, transportMode,
          isCalculating, pc, startResp, endResp, closure, routesData,
          processedRoutes, fastestRoute, safestRoute, defaultRoute, routes,
          selectedRouteIndex, startMarkerRef, endMarkerRef, savedRoutes,
          clock, call, autoStart, polylines, currentRouteRef, drawTimers,
          routeInfo, attempts, settled, timeouts, replies, retries,
          rawAddress, borough, lastSafetyAddressRef, lastSafetyBoroughRef,
          safetyTimer, safetyCalls, safetyRequestRef, safetyData,
          safetyLoading, safetyError>>

\* The route polyline and the route summary of the page
mapVars == <<polylines, currentRouteRef, drawTimers, routeInfo>>

\* The promise of extractAddressAndRooms in the listing popup
messageVars == <<attempts, settled, timeouts, replies, retries>>

\* The safety analysis of the listing popup
safetyVars == <<rawAddress, borough, lastSafetyAddressRef,
                lastSafetyBoroughRef, safetyTimer, safetyCalls,
                safetyRequestRef, safetyData, safetyLoading, safetyError>>

popupVars == <<messageVars, safetyVars>>

\* What a specification of the planner's own state leaves as it is: the
\* page opened without URL parameters, the map's layers, and the popup
outsideVars == <<autoStart, mapVars, popupVars>>

planVars == <<crimeFetched, startLocation, endLocation, transportMode,
              isCalculating, pc, startResp, endResp, closure, routesData,
              processedRoutes, fastestRoute, safestRoute, defaultRoute, routes,
              selectedRouteIndex, startMarkerRef, endMarkerRef, savedRoutes,
              clock>>

----------------------------------------------------------------------------
(* Bounds of the model *)

MaxIncidents == 2     \* incident records in a directly scored incident set
MaxPolyLen == 6       \* points of a polyline
MaxFeed == 2          \* incident records in the feed of a planning session
MaxRoutes == 2        \* alternatives in a routing response
MaxClock == 4         \* clock steps of a session

----------------------------------------------------------------------------
(* JavaScript values and string operations *)

\* A JavaScript number that may be NaN
Num(v) == [nan |-> FALSE, v |-> v]
NaN == [nan |-> TRUE, v |-> 0]

Upper == <<"A","B","C","D","E","F","G","H","I","J","K","L","M",
           "N","O","P","Q","R","S","T","U","V","W","X","Y","Z">>
Lower == <<"a","b","c","d","e","f","g","h","i","j","k","l","m",
           "n","o","p","q","r","s","t","u","v","w","x","y","z">>

LowerOf == [c \in { Upper[i] : i \in 1..26 } |->
                Lower[CHOOSE i \in 1..26 : Upper[i] = c]]

\* String.prototype.toLowerCase, one character
lowerChar(c) == IF c \in DOMAIN LowerOf THEN LowerOf[c] ELSE c

\* String.prototype.toLowerCase
toLowerCase(s) == [i \in 1..Len(s) |-> lowerChar(s[i])]

\* String.prototype.includes
includes(s, sub) ==
    \E i \in 0..(Len(s) - Len(sub)) : \A k \in 1..Len(sub) : s[i + k] = sub[k]

Digits == <<"0","1","2","3","4","5","6","7","8","9">>

DigitOf == [c \in { Digits[i] : i \in 1..10 } |->
                (CHOOSE i \in 1..10 : Digits[i] = c) - 1]

isDigit(c) == c \in DOMAIN DigitOf

digitValue(c) == DigitOf[c]

\* parseFloat on a coordinate text: the value of the longest prefix of
\* digits, NaN when the text does not start with a digit
parseFloat(s) ==
    LET prefixLen == CHOOSE k \in 0..Len(s) :
                        /\ \A i \in 1..k : isDigit(s[i])
                        /\ (k < Len(s) => ~isDigit(s[k + 1]))
        val[i \in 0..Len(s)] ==
            IF i = 0 THEN 0 ELSE val[i - 1] * 10 + digitValue(s[i])
    IN  IF prefixLen = 0 THEN NaN ELSE Num(val[prefixLen])

\* a - b, a a JavaScript number, b a number
jsSub(a, b) == IF a.nan THEN NaN ELSE Num(a.v - b)

\* a*a + b*b
jsSumSq(a, b) == IF a.nan \/ b.nan THEN NaN ELSE Num(a.v * a.v + b.v * b.v)

\* a > k and a < k: false when a is NaN
jsGt(a, k) == ~a.nan /\ a.v > k
jsLt(a, k) == ~a.nan /\ a.v < k

----------------------------------------------------------------------------
(* Exact fractions *)

RECURSIVE gcd(_, _)
gcd(a, b) == IF b = 0 THEN a ELSE gcd(b, a % b)

abs(a) == IF a < 0 THEN -a ELSE a

\* The fraction n/d (d > 0) in lowest terms
Rat(n, d) == LET g == gcd(abs(n), d) IN [n |-> n \div g, d |-> d \div g]
RInt(k) == Rat(k, 1)
RLe(a, b) == a.n * b.d <= b.n * a.d
RLt(a, b) == a.n * b.d < b.n * a.d
REq(a, b) == a.n * b.d = b.n * a.d
RAdd(a, b) == Rat(a.n * b.d + b.n * a.d, a.d * b.d)
RSub(a, b) == Rat(a.n * b.d - b.n * a.d, a.d * b.d)
\* a * k and a / k, k a positive integer
RTimes(a, k) == Rat(a.n * k, a.d)
ROver(a, k) == Rat(a.n, a.d * k)
\* Math.min, Math.max
RMin(a, b) == IF RLe(a, b) THEN a ELSE b
RMax(a, b) == IF RLe(a, b) THEN b ELSE a
\* Math.round: the nearest integer, halves rounded up
MathRound(a) == (2 * a.n + a.d) \div (2 * a.d)

----------------------------------------------------------------------------
(* The scoring functions.  They read the component's crimeData; here it   *)
(* is the parameter cd.                                                    *)

Radius == 5               \* the default radius 0.005, in units of 0.001

s_assault == <<"a","s","s","a","u","l","t">>
s_robbery == <<"r","o","b","b","e","r","y">>
s_burglary == <<"b","u","r","g","l","a","r","y">>
s_theft == <<"t","h","e","f","t">>
s_larceny == <<"l","a","r","c","e","n","y">>
s_arson == <<"a","r","s","o","n">>
s_fraud == <<"f","r","a","u","d">>
s_vehicle == <<"v","e","h","i","c","l","e">>
s_auto == <<"a","u","t","o">>

\* Mutant: violent crime not weighed
crimeWeight_noViolentRule(crime) ==
    LET category == toLowerCase(crime.incident_category)
    IN  IF includes(category, s_assault) \/ includes(category, s_robbery) THEN 0
        ELSE IF \/ includes(category, s_burglary)
                \/ includes(category, s_theft)
                \/ includes(category, s_larceny) THEN 5
        ELSE IF includes(category, s_arson) THEN 6
        ELSE IF includes(category, s_fraud) THEN 3
        ELSE IF includes(category, s_vehicle) \/ includes(category, s_auto) THEN 3
        ELSE 1

\* calculateCrimeDensity, the weight of one record.  desc is computed and
\* never read.
crimeWeight(crime) ==
    LET category == toLowerCase(crime.incident_category)
        desc == toLowerCase(crime.incident_description)
    IN  IF includes(category, s_assault) \/ includes(category, s_robbery) THEN 8
        ELSE IF \/ includes(category, s_burglary)
                \/ includes(category, s_theft)
                \/ includes(category, s_larceny) THEN 5
        ELSE IF includes(category, s_arson) THEN 6
        ELSE IF includes(category, s_fraud) THEN 3
        ELSE IF includes(category, s_vehicle) \/ includes(category, s_auto) THEN 3
        ELSE 1

\* The square of the distance of a record from (lat, lon): NaN when a
\* coordinate does not parse
distanceSq(crime, lat, lon) ==
    LET dLat == jsSub(parseFloat(crime.latitude), lat)
        dLon == jsSub(parseFloat(crime.longitude), lon)
    IN  jsSumSq(dLat, dLon)

\* calculateCrimeDensity: the reduce over crimeData.  A record adds nothing
\* when the test distance > radius is true, and its weight otherwise.  The
\* sum of the records lo..hi is taken by halves, which gives the reduce's
\* value, the additions being exact.
calculateCrimeDensity(cd, lat, lon, radius) ==
    LET added(i) ==
            IF jsGt(distanceSq(cd[i], lat, lon), radius * radius)
            THEN 0
            ELSE crimeWeight(cd[i])
        sum[r \in (1..(Len(cd) + 1)) \X (0..Len(cd))] ==
            IF r[1] > r[2] THEN 0
            ELSE IF r[1] = r[2] THEN added(r[1])
            ELSE LET mid == (r[1] + r[2]) \div 2
                 IN  sum[<<r[1], mid>>] + sum[<<mid + 1, r[2]>>]
    IN  sum[<<1, Len(cd)>>]

\* Mutant: every k-th point counted from the first, the first left out
everyNth_afterFirst(coordinates, k) ==
    [j \in 1..(Len(coordinates) \div k) |-> coordinates[j * k]]

\* Array.prototype.filter((_, index) => index % k === 0); indices from 0
everyNth(coordinates, k) ==
    [j \in 1..((Len(coordinates) + k - 1) \div k) |-> coordinates[(j - 1) * k + 1]]

\* Mutant: the mean taken over all the points of the polyline
sampledScore_meanOverAllPoints(cd, coordinates) ==
    LET samplePoints == everyNth(coordinates, 5)
        crimeScore(j) == calculateCrimeDensity(cd, samplePoints[j][1],
                                               samplePoints[j][2], Radius)
        tally[j \in 0..Len(samplePoints)] ==
            IF j = 0 THEN [totalCrimeScore |-> 0, maxCrimeAtPoint |-> 0]
            ELSE LET before == tally[j - 1]
                     score == crimeScore(j)
                 IN  [totalCrimeScore |-> before.totalCrimeScore + score,
                      maxCrimeAtPoint |->
                          IF score > before.maxCrimeAtPoint
                          THEN score ELSE before.maxCrimeAtPoint]
        avgCrimeScore == Rat(tally[Len(samplePoints)].totalCrimeScore,
                             Len(coordinates))
        normalizedAvg == RMin(ROver(avgCrimeScore, 300), Rat(3, 2))
        normalizedMax == RMin(Rat(tally[Len(samplePoints)].maxCrimeAtPoint, 500),
                              Rat(3, 2))
        safetyScore == RSub(RInt(90), RAdd(RTimes(normalizedAvg, 20),
                                           RTimes(normalizedMax, 25)))
    IN  RMax(RInt(0), RMin(RInt(100), safetyScore))

\* Mutant: the normalised densities without their caps of 1.5
sampledScore_uncapped(cd, coordinates) ==
    LET samplePoints == everyNth(coordinates, 5)
        crimeScore(j) == calculateCrimeDensity(cd, samplePoints[j][1],
                                               samplePoints[j][2], Radius)
        tally[j \in 0..Len(samplePoints)] ==
            IF j = 0 THEN [totalCrimeScore |-> 0, maxCrimeAtPoint |-> 0]
            ELSE LET before == tally[j - 1]
                     score == crimeScore(j)
                 IN  [totalCrimeScore |-> before.totalCrimeScore + score,
                      maxCrimeAtPoint |->
                          IF score > before.maxCrimeAtPoint
                          THEN score ELSE before.maxCrimeAtPoint]
        totalCrimeScore == tally[Len(samplePoints)].totalCrimeScore
        maxCrimeAtPoint == tally[Len(samplePoints)].maxCrimeAtPoint
        avgCrimeScore == Rat(totalCrimeScore, Len(samplePoints))
        normalizedAvg == ROver(avgCrimeScore, 300)
        normalizedMax == Rat(maxCrimeAtPoint, 500)
        safetyScore == RSub(RInt(90), RAdd(RTimes(normalizedAvg, 20),
                                           RTimes(normalizedMax, 25)))
    IN  RMax(RInt(0), RMin(RInt(100), safetyScore))

\* calculateRouteSafetyScore after its guard: the score of a non-empty
\* polyline against a non-empty incident set
sampledScore(cd, coordinates) ==
    LET samplePoints == everyNth(coordinates, 5)
        crimeScore(j) == calculateCrimeDensity(cd, samplePoints[j][1],
                                               samplePoints[j][2], Radius)
        \* the forEach: totalCrimeScore and maxCrimeAtPoint after j points
        tally[j \in 0..Len(samplePoints)] ==
            IF j = 0 THEN [totalCrimeScore |-> 0, maxCrimeAtPoint |-> 0]
            ELSE LET before == tally[j - 1]
                     score == crimeScore(j)
                 IN  [totalCrimeScore |-> before.totalCrimeScore + score,
                      maxCrimeAtPoint |->
                          IF score > before.maxCrimeAtPoint
                          THEN score ELSE before.maxCrimeAtPoint]
        totalCrimeScore == tally[Len(samplePoints)].totalCrimeScore
        maxCrimeAtPoint == tally[Len(samplePoints)].maxCrimeAtPoint
        avgCrimeScore == Rat(totalCrimeScore, Len(samplePoints))
        normalizedAvg == RMin(ROver(avgCrimeScore, 300), Rat(3, 2))
        normalizedMax == RMin(Rat(maxCrimeAtPoint, 500), Rat(3, 2))
        safetyScore == RSub(RInt(90), RAdd(RTimes(normalizedAvg, 20),
                                           RTimes(normalizedMax, 25)))
    IN  RMax(RInt(0), RMin(RInt(100), safetyScore))

\* Mutant: the no-data case reported by a sentinel
calculateRouteSafetyScore_sentinel(cd, coordinates) ==
    IF Len(coordinates) = 0 \/ Len(cd) = 0 THEN RInt(-1)
    ELSE sampledScore(cd, coordinates)

\* Mutant: the guard forgets the incident set
calculateRouteSafetyScore_noDataCheck(cd, coordinates) ==
    IF Len(coordinates) = 0 THEN RInt(85)
    ELSE sampledScore(cd, coordinates)

\* Mutant: the guard also catches a single point
calculateRouteSafetyScore_twoPoints(cd, coordinates) ==
    IF Len(coordinates) < 2 \/ Len(cd) = 0 THEN RInt(85)
    ELSE sampledScore(cd, coordinates)

\* calculateRouteSafetyScore; coordinates are <<lat, lon>> pairs
calculateRouteSafetyScore(cd, coordinates) ==
    IF Len(coordinates) = 0 \/ Len(cd) = 0 THEN RInt(85)
    ELSE sampledScore(cd, coordinates)

\* getSafetyGrade
getSafetyGrade(score) ==
    IF RLe(RInt(90), score) THEN "A"
    ELSE IF RLe(RInt(80), score) THEN "B"
    ELSE IF RLe(RInt(70), score) THEN "C"
    ELSE IF RLe(RInt(60), score) THEN "D"
    ELSE "F"

NearbyRadius == 5         \* the literal 0.005 of identifyHighRiskAreas

\* identifyHighRiskAreas: c.incident_category || c.incident_description
crimeKey(c) ==
    IF c.incident_category # <<>> THEN c.incident_category
    ELSE c.incident_description

\* identifyHighRiskAreas: the description of one flagged point.  topCrime is
\* the first entry of Object.entries(commonCrimes) after a stable sort by
\* count, descending: the key with the largest count that was inserted first.
\* `High <crime> activity (<count> incidents)` is the record [crime, count].
riskDescription(cd, lat, lon) ==
    LET nearbyIncidents ==
            SelectSeq(cd, LAMBDA crime :
                jsLt(distanceSq(crime, lat, lon), NearbyRadius * NearbyRadius))
        keys == [j \in 1..Len(nearbyIncidents) |-> crimeKey(nearbyIncidents[j])]
        commonCrimes(k) == Cardinality({j \in 1..Len(keys) : keys[j] = k})
        topCrime == CHOOSE j \in 1..Len(keys) :
                        /\ \A m \in 1..Len(keys) :
                              commonCrimes(keys[m]) <= commonCrimes(keys[j])
                        /\ \A m \in 1..(j - 1) :
                              commonCrimes(keys[m]) < commonCrimes(keys[j])
    IN  IF Len(keys) = 0
        THEN [generic |-> TRUE, crime |-> <<>>, count |-> 0]
        ELSE [generic |-> FALSE, crime |-> toLowerCase(keys[topCrime]),
              count |-> commonCrimes(keys[topCrime])]

\* Mutant: the thresholds 15 and 50 included
identifyHighRiskAreas_thresholdsIncluded(cd, coordinates) ==
    LET riskArea(coord) ==
            LET crimeScore == calculateCrimeDensity(cd, coord[1], coord[2], Radius)
            IN  IF crimeScore >= 15
                THEN << [lat |-> coord[1], lng |-> coord[2],
                         risk |-> IF crimeScore >= 50 THEN "high" ELSE "medium",
                         description |-> riskDescription(cd, coord[1], coord[2])] >>
                ELSE << >>
        highRiskAreas[r \in (1..(Len(coordinates) + 1)) \X (0..Len(coordinates))] ==
            IF r[1] > r[2] THEN << >>
            ELSE IF r[1] = r[2]
                 THEN IF (r[1] - 1) % 10 = 0
                      THEN riskArea(coordinates[r[1]])
                      ELSE << >>
            ELSE LET mid == (r[1] + r[2]) \div 2
                 IN  highRiskAreas[<<r[1], mid>>] \o highRiskAreas[<<mid + 1, r[2]>>]
    IN  highRiskAreas[<<1, Len(coordinates)>>]

\* identifyHighRiskAreas; coordinates are <<lat, lon>> pairs
identifyHighRiskAreas(cd, coordinates) ==
    LET riskArea(coord) ==
            LET crimeScore == calculateCrimeDensity(cd, coord[1], coord[2], Radius)
            IN  IF crimeScore > 15
                THEN << [lat |-> coord[1], lng |-> coord[2],
                         risk |-> IF crimeScore > 50 THEN "high" ELSE "medium",
                         description |-> riskDescription(cd, coord[1], coord[2])] >>
                ELSE << >>
        \* the forEach: what the elements lo..hi push, in their order,
        \* taken by halves
        highRiskAreas[r \in (1..(Len(coordinates) + 1)) \X (0..Len(coordinates))] ==
            IF r[1] > r[2] THEN << >>
            ELSE IF r[1] = r[2]
                 THEN IF (r[1] - 1) % 10 = 0
                      THEN riskArea(coordinates[r[1]])
                      ELSE << >>
            ELSE LET mid == (r[1] + r[2]) \div 2
                 IN  highRiskAreas[<<r[1], mid>>] \o highRiskAreas[<<mid + 1, r[2]>>]
    IN  highRiskAreas[<<1, Len(coordinates)>>]

\* Mutant: the score lowered by the alternative's place in the response
processRoute_placePenalty(cd, route, index) ==
    LET coordinates == [i \in 1..Len(route.geometry) |->
                            <<route.geometry[i][2], route.geometry[i][1]>>]
        safetyScore == RSub(calculateRouteSafetyScore(cd, coordinates), RInt(index))
    IN  [index |-> index,
         type |-> "alternative",
         safetyScore |-> MathRound(safetyScore),
         safetyGrade |-> getSafetyGrade(safetyScore),
         coordinates |-> coordinates,
         highRiskAreas |-> identifyHighRiskAreas(cd, coordinates),
         details |-> [distance_meters |-> route.distance,
                      duration_seconds |-> route.duration]]

\* calculateRoute, STEP 3: the callback that scores one alternative.  The
\* response's geometry holds <<lon, lat>> pairs.  The display texts (name,
\* distance, duration) and crimeStats are not modelled.
processRoute(cd, route, index) ==
    LET coordinates == [i \in 1..Len(route.geometry) |->
                            <<route.geometry[i][2], route.geometry[i][1]>>]
        safetyScore == calculateRouteSafetyScore(cd, coordinates)
    IN  [index |-> index,
         type |-> "alternative",
         safetyScore |-> MathRound(safetyScore),
         safetyGrade |-> getSafetyGrade(safetyScore),
         coordinates |-> coordinates,
         highRiskAreas |-> identifyHighRiskAreas(cd, coordinates),
         details |-> [distance_meters |-> route.distance,
                      duration_seconds |-> route.duration]]

----------------------------------------------------------------------------
(* Inputs *)

t_Assault == <<"A","s","s","a","u","l","t">>
t_LarcenyTheft == <<"L","a","r","c","e","n","y"," ","T","h","e","f","t">>
t_Arson == <<"A","r","s","o","n">>
t_Fraud == <<"F","r","a","u","d">>
t_MotorVehicleTheft == <<"M","o","t","o","r"," ","V","e","h","i","c","l","e",
                         " ","T","h","e","f","t">>
t_RecoveredVehicle == <<"R","e","c","o","v","e","r","e","d"," ",
                        "V","e","h","i","c","l","e">>
t_Other == <<"O","t","h","e","r">>
t_Empty == << >>
t_0 == <<"0">>
t_x == <<"x">>

Incident(lat, lon, category, description) ==
    [latitude |-> lat, longitude |-> lon,
     incident_category |-> category, incident_description |-> description]

\* Records at (0, 0) of every weight class, one of them with no category
\* and a description; one record whose latitude and one whose longitude
\* does not parse
IncidentCatalogue ==
    { Incident(t_0, t_0, c, t_Empty) :
        c \in {t_Assault, t_LarcenyTheft, t_Arson, t_Fraud,
               t_MotorVehicleTheft, t_RecoveredVehicle, t_Other} }
    \cup { Incident(t_0, t_0, t_Empty, t_Assault),
           Incident(t_x, t_0, t_Assault, t_Empty),
           Incident(t_0, t_Empty, t_LarcenyTheft, t_Empty) }

SeqsUpTo(S, n) == UNION { [1..k -> S] : k \in 0..n }

\* n points going north from (lat0, 0), one unit apart, as <<lat, lon>>
Line(n, lat0) == [i \in 1..n |-> <<lat0 + i - 1, 0>>]

StartLats == {0, 3, 6}

Polylines == { Line(n, lat0) : n \in 0..MaxPolyLen, lat0 \in StartLats }

\* The same line as a routing response's geometry: <<lon, lat>> pairs
Geometry(coordinates) ==
    [i \in 1..Len(coordinates) |-> <<coordinates[i][2], coordinates[i][1]>>]

Distances == {1000, 1200}
Durations == {500, 800}

NoCall == [fn |-> "none", arg |-> << >>, result |-> << >>]

t_Origin == <<"A">>
t_Destination == <<"B">>

NoClosure == [crimeData |-> << >>, startLocation |-> << >>,
              endLocation |-> << >>, transportMode |-> "walking"]

\* safetyData null
NoData == [address |-> "", call |-> 0]

\* routeInfo null
NoInfo == [duration |-> -1, distance |-> -1]

\* No route polyline on the map, no draw pending, no route summary
MapEmpty ==
    /\ polylines = << >>
    /\ currentRouteRef = 0
    /\ drawTimers = << >>
    /\ routeInfo = NoInfo

\* The popup before its mount effects
PopupClosed ==
    /\ attempts = 0
    /\ settled = "pending"
    /\ timeouts = {}
    /\ replies = {}
    /\ retries = 0
    /\ rawAddress = ""
    /\ borough = "null"
    /\ lastSafetyAddressRef = ""
    /\ lastSafetyBoroughRef = "null"
    /\ safetyTimer = << >>
    /\ safetyCalls = << >>
    /\ safetyRequestRef = 0
    /\ safetyData = NoData
    /\ safetyLoading = FALSE
    /\ safetyError = ""

\* The page opened without URL parameters, nothing drawn, the popup closed
Outside == autoStart = "none" /\ MapEmpty /\ PopupClosed

----------------------------------------------------------------------------
(* Direct calls of the scoring functions on a loaded incident set: one    *)
(* call in a behaviour                                                    *)

PlanIdle ==
    /\ crimeFetched = TRUE
    /\ startLocation = t_Origin
    /\ endLocation = t_Destination
    /\ transportMode = "walking"
    /\ isCalculating = FALSE
    /\ pc = "idle"
    /\ startResp = "none"
    /\ endResp = "none"
    /\ startMarkerRef = FALSE
    /\ endMarkerRef = FALSE
    /\ closure = NoClosure
    /\ routesData = << >>
    /\ processedRoutes = << >>
    /\ fastestRoute = 0
    /\ safestRoute = 0
    /\ defaultRoute = 0
    /\ routes = << >>
    /\ selectedRouteIndex = 0
    /\ savedRoutes = << >>
    /\ clock = 0

InitCore ==
    /\ crimeData \in SeqsUpTo(IncidentCatalogue, MaxIncidents)
    /\ call = NoCall
    /\ PlanIdle
    /\ Outside

DensityCall ==
    \E lat \in 0..MaxPolyLen, lon \in {0, 4} :
        /\ call = NoCall
        /\ call' = [fn |-> "calculateCrimeDensity", arg |-> <<lat, lon>>,
                    result |-> calculateCrimeDensity(crimeData, lat, lon, Radius)]
        /\ UNCHANGED <<crimeData, planVars>>

ScoreCall ==
    \E coordinates \in Polylines :
        /\ call = NoCall
        /\ call' = [fn |-> "calculateRouteSafetyScore", arg |-> coordinates,
                    result |-> calculateRouteSafetyScore(crimeData, coordinates)]
        /\ UNCHANGED <<crimeData, planVars>>

RiskCall ==
    \E coordinates \in Polylines :
        /\ call = NoCall
        /\ call' = [fn |-> "identifyHighRiskAreas", arg |-> coordinates,
                    result |-> identifyHighRiskAreas(crimeData, coordinates)]
        /\ UNCHANGED <<crimeData, planVars>>

ProcessCall ==
    \E coordinates \in Polylines, distance \in Distances, duration \in Durations :
        LET route == [geometry |-> Geometry(coordinates),
                      distance |-> distance, duration |-> duration]
        IN  /\ call = NoCall
            /\ call' = [fn |-> "processRoute", arg |-> route,
                        result |-> processRoute(crimeData, route, 0)]
            /\ UNCHANGED <<crimeData, planVars>>

NextCore ==
    \/ DensityCall /\ UNCHANGED outsideVars
    \/ ScoreCall /\ UNCHANGED outsideVars
    \/ RiskCall /\ UNCHANGED outsideVars
    \/ ProcessCall /\ UNCHANGED outsideVars

SpecCore == InitCore /\ [][NextCore]_vars

----------------------------------------------------------------------------
(* Direct calls on dense incident sets and long polylines: densities       *)
(* around the thresholds 15 and 50 of identifyHighRiskAreas, up to the     *)
(* caps of calculateRouteSafetyScore, and polylines that are sampled more  *)
(* than once                                                               *)

MaxHeavy == 6         \* weight-8 records at (0, 0)
MaxLight == 7         \* weight-1 records at (0, 0)
MaxLongLen == 11      \* points of a long polyline

t_10 == <<"1", "0">>

Copies(x, k) == [i \in 1..k |-> x]

\* The least number of weight-8 records that brings a point's density to
\* 750, where normalizedMax reaches its cap (and normalizedAvg has passed
\* its own at 450)
Saturation == (750 + 7) \div 8

\* The multiples of ten up to a hundred, as coordinate texts
Tens == << <<"0">>, <<"1","0">>, <<"2","0">>, <<"3","0">>, <<"4","0">>,
           <<"5","0">>, <<"6","0">>, <<"7","0">>, <<"8","0">>, <<"9","0">>,
           <<"1","0","0">> >>

\* Two weight-8 records at every tenth unit of latitude from 0 to 100:
\* every point of the line from (0, 0) to (100, 0) has density 16 or more
Patrolled ==
    LET laid[k \in 0..Len(Tens)] ==
            IF k = 0 THEN << >>
            ELSE laid[k - 1] \o Copies(Incident(Tens[k], t_0, t_Assault, t_Empty), 2)
    IN  laid[Len(Tens)]

\* a weight-8 and b weight-1 records at (0, 0), c weight-8 records at (10, 0)
Crowd(a, b, c) ==
    Copies(Incident(t_0, t_0, t_Assault, t_Empty), a)
        \o Copies(Incident(t_0, t_0, t_Other, t_Empty), b)
        \o Copies(Incident(t_10, t_0, t_Assault, t_Empty), c)

FarCounts == {0, 2, 7}

DenseSets ==
    { Crowd(a, b, c) : a \in 0..MaxHeavy, b \in 0..MaxLight, c \in FarCounts }
    \cup { Crowd(Saturation + a, 0, 0) : a \in 0..1 }
    \cup { Patrolled }

DenseStartLats == {0, 3, 5, 6}

\* Lines of every length up to MaxLongLen, and the line of 101 points
LongLines ==
    { Line(n, lat0) : n \in 0..MaxLongLen, lat0 \in DenseStartLats }
    \cup { Line(101, 0) }

InitDense ==
    /\ crimeData \in DenseSets
    /\ call = NoCall
    /\ PlanIdle
    /\ Outside

DenseScoreCall ==
    \E coordinates \in LongLines :
        /\ call = NoCall
        /\ call' = [fn |-> "calculateRouteSafetyScore", arg |-> coordinates,
                    result |-> calculateRouteSafetyScore(crimeData, coordinates)]
        /\ UNCHANGED <<crimeData, planVars>>

DenseRiskCall ==
    \E coordinates \in LongLines :
        /\ call = NoCall
        /\ call' = [fn |-> "identifyHighRiskAreas", arg |-> coordinates,
                    result |-> identifyHighRiskAreas(crimeData, coordinates)]
        /\ UNCHANGED <<crimeData, planVars>>

NextDense ==
    \/ DenseScoreCall /\ UNCHANGED outsideVars
    \/ DenseRiskCall /\ UNCHANGED outsideVars

SpecDense == InitDense /\ [][NextDense]_vars

----------------------------------------------------------------------------
(* A planning session: the incident feed loads once, the user plans        *)
(* routes between two typed locations                                      *)

\* The feed: a record near the routes of weight 8, one of weight 1, and one
\* whose latitude does not parse
FeedCatalogue ==
    { Incident(t_0, t_0, t_Assault, t_Empty),
      Incident(t_0, t_0, t_Other, t_Empty),
      Incident(t_x, t_0, t_Assault, t_Empty) }

\* The alternatives of a routing response
Candidates ==
    { [geometry |-> Geometry(Line(MaxPolyLen, lat0)),
       distance |-> distance, duration |-> duration] :
        lat0 \in {0, 6}, distance \in Distances, duration \in Durations }

Pools == SeqsUpTo(Candidates, MaxRoutes) \ { << >> }

Init ==
    /\ crimeData = << >>
    /\ crimeFetched = FALSE
    /\ startLocation = t_Origin
    /\ endLocation = t_Destination
    /\ transportMode = "walking"
    /\ isCalculating = FALSE
    /\ pc = "idle"
    /\ startResp = "none"
    /\ endResp = "none"
    /\ startMarkerRef = FALSE
    /\ endMarkerRef = FALSE
    /\ closure = NoClosure
    /\ routesData = << >>
    /\ processedRoutes = << >>
    /\ fastestRoute = 0
    /\ safestRoute = 0
    /\ defaultRoute = 0
    /\ routes = << >>
    /\ selectedRouteIndex = 0
    /\ savedRoutes = << >>
    /\ clock = 0
    /\ call = NoCall
    /\ Outside

\* useEffect(fetchCrimeData): the feed's response arrives, or the request
\* fails and the incident set is set to []
FetchCrimeData ==
    /\ ~crimeFetched
    /\ \E data \in SeqsUpTo(FeedCatalogue, MaxFeed) : crimeData' = data
    /\ crimeFetched' = TRUE
    /\ UNCHANGED <<startLocation, endLocation, transportMode, isCalculating,
                   pc, startResp, endResp, closure, routesData,
                   processedRoutes, fastestRoute, safestRoute, defaultRoute,
                   routes, selectedRouteIndex, startMarkerRef, endMarkerRef,
                   savedRoutes, clock, call>>

\* calculateRoute up to its first await: the guard, setIsCalculating(true),
\* clearCurrentRoute, and the two geocoding lookups are issued.  The
\* function and the scoring functions it calls belong to one render: they
\* read that render's crimeData, locations and mode.
CalculateRouteStart ==
    /\ startLocation # << >>
    /\ endLocation # << >>
    /\ ~isCalculating
    /\ clock + 2 <= MaxClock
    /\ isCalculating' = TRUE
    /\ routes' = << >>
    /\ selectedRouteIndex' = 0
    /\ startMarkerRef' = FALSE
    /\ endMarkerRef' = FALSE
    /\ startResp' = "none"
    /\ endResp' = "none"
    /\ closure' = [crimeData |-> crimeData, startLocation |-> startLocation,
                   endLocation |-> endLocation, transportMode |-> transportMode]
    /\ routesData' = << >>
    /\ processedRoutes' = << >>
    /\ fastestRoute' = 0
    /\ safestRoute' = 0
    /\ defaultRoute' = 0
    /\ pc' = "geocoding"
    /\ UNCHANGED <<crimeData, crimeFetched, startLocation, endLocation,
                   transportMode, savedRoutes, clock, call>>

\* Mutant: the history written on the way out
AbandonRequest_savesRoute ==
    /\ isCalculating' = FALSE
    /\ pc' = "idle"
    /\ savedRoutes' = << [startLocation |-> closure.startLocation,
                          endLocation |-> closure.endLocation,
                          transportMode |-> closure.transportMode,
                          timestamp |-> clock + 1] >> \o savedRoutes
    /\ UNCHANGED <<crimeData, crimeFetched, startLocation, endLocation,
                   transportMode, closure, routesData, processedRoutes,
                   fastestRoute, safestRoute, defaultRoute, routes,
                   selectedRouteIndex, startMarkerRef, endMarkerRef, call>>

\* Mutant: isCalculating left as it is on the way out
AbandonRequest_keepsCalculating ==
    /\ pc' = "idle"
    /\ UNCHANGED <<crimeData, crimeFetched, startLocation, endLocation,
                   transportMode, isCalculating, closure, routesData,
                   processedRoutes, fastestRoute, safestRoute, defaultRoute,
                   routes, selectedRouteIndex, startMarkerRef, endMarkerRef,
                   savedRoutes, call>>

\* The catch and finally blocks of calculateRoute
AbandonRequest ==
    /\ isCalculating' = FALSE
    /\ pc' = "idle"
    /\ UNCHANGED <<crimeData, crimeFetched, startLocation, endLocation,
                   transportMode, closure, routesData, processedRoutes,
                   fastestRoute, safestRoute, defaultRoute, routes,
                   selectedRouteIndex, startMarkerRef, endMarkerRef,
                   savedRoutes, call>>

\* What a geocoding lookup can come to: the request fails, the response
\* holds no match (success false, or an empty list), or it holds a match
GeocodeOutcomes == {"rejected", "empty", "match"}

\* Mutant: the responses not examined
GeocodeReturn_responsesNotExamined ==
    /\ pc = "geocoding"
    /\ clock' = clock + 1
    /\ \E s \in GeocodeOutcomes, e \in GeocodeOutcomes :
        IF s = "rejected" \/ e = "rejected"
        THEN /\ UNCHANGED <<startResp, endResp>>
             /\ AbandonRequest
        ELSE /\ startResp' = s
             /\ endResp' = e
             /\ pc' = "routing"
             /\ UNCHANGED <<crimeData, crimeFetched, startLocation,
                            endLocation, transportMode, isCalculating,
                            closure, routesData, processedRoutes,
                            fastestRoute, safestRoute, defaultRoute,
                            routes, selectedRouteIndex, startMarkerRef,
                            endMarkerRef, savedRoutes, call>>

\* STEP 1 after the await: Promise.all has settled.  It rejects when a
\* lookup failed, and then startResp and endResp are never assigned.
GeocodeReturn ==
    /\ pc = "geocoding"
    /\ clock' = clock + 1
    /\ \E s \in GeocodeOutcomes, e \in GeocodeOutcomes :
        IF s = "rejected" \/ e = "rejected"
        THEN /\ UNCHANGED <<startResp, endResp>>
             /\ AbandonRequest
        ELSE /\ startResp' = s
             /\ endResp' = e
             /\ IF s = "match" /\ e = "match"
                THEN /\ pc' = "routing"
                     /\ UNCHANGED <<crimeData, crimeFetched, startLocation,
                                    endLocation, transportMode, isCalculating,
                                    closure, routesData, processedRoutes,
                                    fastestRoute, safestRoute, defaultRoute,
                                    routes, selectedRouteIndex, startMarkerRef,
                                    endMarkerRef, savedRoutes, call>>
                ELSE AbandonRequest

\* STEP 3: routesData.map(...), every alternative scored against the same
\* incident set
processRoutes(cd, pool) ==
    LET mapped[i \in 0..Len(pool)] ==
            IF i = 0 THEN << >>
            ELSE Append(mapped[i - 1], processRoute(cd, pool[i], i - 1))
    IN  mapped[Len(pool)]

\* [...arr].sort(compare)[0] for a comparator that orders by a numeric key,
\* ascending: Array.prototype.sort is stable, so the first of the sorted
\* copy is the element of rank 1, ties ranked by position
firstSortedBy(key) ==
    LET n == Len(key)
        rank(i) == 1 + Cardinality({ j \in 1..n :
                        key[j] < key[i] \/ (key[j] = key[i] /\ j < i) })
    IN  CHOOSE i \in 1..n : rank(i) = 1

\* STEP 4: fastestRoute, a reference into the processed alternatives
pickFastest(processed) ==
    firstSortedBy([i \in 1..Len(processed) |-> processed[i].details.duration_seconds])

\* Mutant: the scores sorted ascending
pickSafest_ascending(processed) ==
    firstSortedBy([i \in 1..Len(processed) |-> processed[i].safetyScore])

\* STEP 4: safestRoute, a reference into the processed alternatives
pickSafest(processed) ==
    firstSortedBy([i \in 1..Len(processed) |-> 0 - processed[i].safetyScore])

\* Mutant: two routes told apart by their duration alone
finalRefs_durationOnly(processed, f, s) ==
    IF processed[f].details.duration_seconds # processed[s].details.duration_seconds
    THEN <<f, s>>
    ELSE <<f>>

\* STEP 4: the references that make up finalRoutes
finalRefs(processed, f, s) ==
    IF \/ processed[f].details.distance_meters # processed[s].details.distance_meters
       \/ processed[f].details.duration_seconds # processed[s].details.duration_seconds
    THEN <<f, s>>
    ELSE <<f>>

\* STEP 4: the alternatives after the assignments to type and index made
\* through fastestRoute, safestRoute and finalRoutes, in the code's order
labelRoutes(processed, f, s) ==
    LET p1 == [processed EXCEPT ![f].type = "fastest"]
        p2 == [p1 EXCEPT ![s].type = "safest"]
        refs == finalRefs(p2, f, s)
        p3 == IF Len(refs) = 1
              THEN [p2 EXCEPT ![refs[1]].type = "fastest_safest"]
              ELSE p2
        reindexed[i \in 0..Len(refs)] ==
            IF i = 0 THEN p3
            ELSE [reindexed[i - 1] EXCEPT ![refs[i]].index = i - 1]
    IN  reindexed[Len(refs)]

\* finalRoutes.find(r => r.type === type); 0 for undefined
findType(final, type) ==
    IF \E i \in 1..Len(final) : final[i].type = type
    THEN CHOOSE i \in 1..Len(final) :
            /\ final[i].type = type
            /\ \A j \in 1..(i - 1) : final[j].type # type
    ELSE 0

\* Mutant: the fastest route preferred
pickDefault_fastestFirst(final) ==
    IF findType(final, "fastest") # 0 THEN findType(final, "fastest")
    ELSE IF findType(final, "fastest_safest") # 0
         THEN findType(final, "fastest_safest")
    ELSE IF findType(final, "safest") # 0 THEN findType(final, "safest")
    ELSE 1

\* The position in finalRoutes of the route displayed first
pickDefault(final) ==
    IF findType(final, "safest") # 0 THEN findType(final, "safest")
    ELSE IF findType(final, "fastest_safest") # 0
         THEN findType(final, "fastest_safest")
    ELSE IF findType(final, "fastest") # 0 THEN findType(final, "fastest")
    ELSE 1

\* saveRoute: the new history
saveRoute(prev, now) ==
    IF closure.startLocation = << >> \/ closure.endLocation = << >> THEN prev
    ELSE << [startLocation |-> closure.startLocation,
             endLocation |-> closure.endLocation,
             transportMode |-> closure.transportMode,
             timestamp |-> now] >>
         \o SubSeq(prev, 1, IF Len(prev) < 9 THEN Len(prev) ELSE 9)

\* The routing request has settled: calculateRoute from STEP 2's check to
\* its end.  The empty pool stands for a failed request, success false, and
\* a response without routes: each of them throws.
RouteReturn ==
    /\ pc = "routing"
    /\ clock' = clock + 1
    /\ UNCHANGED <<startResp, endResp>>
    /\ \E pool \in Pools \cup { << >> } :
        IF pool = << >>
        THEN AbandonRequest
        ELSE
        /\ routesData' = pool
        /\ \E processed \in { processRoutes(closure.crimeData, pool) } :
           \E f \in { pickFastest(processed) } :
           \E s \in { pickSafest(processed) } :
           \E labelled \in { labelRoutes(processed, f, s) } :
           LET refs == finalRefs(processed, f, s)
               finalRoutes == [i \in 1..Len(refs) |-> labelled[refs[i]]]
               d == pickDefault(finalRoutes)
           IN  /\ processedRoutes' = labelled
               /\ fastestRoute' = f
               /\ safestRoute' = s
               /\ routes' = finalRoutes
               /\ startMarkerRef' = TRUE
               /\ endMarkerRef' = TRUE
               /\ defaultRoute' = refs[d]
               /\ selectedRouteIndex' = finalRoutes[d].index
               /\ savedRoutes' = saveRoute(savedRoutes, clock')
               /\ isCalculating' = FALSE
               /\ pc' = "idle"
               /\ UNCHANGED <<crimeData, crimeFetched, startLocation, endLocation,
                              transportMode, closure, call>>

TransportModes == {"walking", "cycling", "driving"}

\* The mode selector's onChange, and the effect on transportMode that
\* follows the render: clearCurrentRoute.  A request in flight goes on.
ChangeTransportMode ==
    /\ \E mode \in TransportModes \ {transportMode} : transportMode' = mode
    /\ routes' = << >>
    /\ selectedRouteIndex' = 0
    /\ startMarkerRef' = FALSE
    /\ endMarkerRef' = FALSE
    /\ UNCHANGED <<crimeData, crimeFetched, startLocation, endLocation,
                   isCalculating, pc, startResp, endResp, closure, routesData,
                   processedRoutes, fastestRoute, safestRoute, defaultRoute,
                   savedRoutes, clock, call>>

Next ==
    \/ FetchCrimeData /\ UNCHANGED outsideVars
    \/ CalculateRouteStart /\ UNCHANGED outsideVars
    \/ GeocodeReturn /\ UNCHANGED outsideVars
    \/ RouteReturn /\ UNCHANGED outsideVars

Spec == Init /\ [][Next]_vars

\* The planning session with the mode selector in use
NextRace ==
    \/ FetchCrimeData /\ UNCHANGED outsideVars
    \/ CalculateRouteStart /\ UNCHANGED outsideVars
    \/ GeocodeReturn /\ UNCHANGED outsideVars
    \/ RouteReturn /\ UNCHANGED outsideVars
    \/ ChangeTransportMode /\ UNCHANGED outsideVars

SpecRace == Init /\ [][NextRace]_vars

----------------------------------------------------------------------------
(* Properties *)

Scored == call.fn = "calculateRouteSafetyScore"
Located == call.fn = "identifyHighRiskAreas"
Measured == call.fn = "calculateCrimeDensity"
Processed == call.fn = "processRoute"

\* A planning request has run its selection and its result is current
Selected == routesData # << >>

\* The candidate behind processed alternative i, as the selector sees it
SameCandidate(route, candidate) ==
    /\ route.details.distance_meters = candidate.distance
    /\ route.details.duration_seconds = candidate.duration
    /\ route.coordinates = [i \in 1..Len(candidate.geometry) |->
            <<candidate.geometry[i][2], candidate.geometry[i][1]>>]

\* C1: the score calculateRouteSafetyScore returns, and the safetyScore
\* stored on a scored route, lie between 0 and 100, for every polyline and
\* every incident set, the empty ones included.
C1_ScoreBounds ==
    /\ Scored => RLe(RInt(0), call.result) /\ RLe(call.result, RInt(100))
    /\ Processed => 0 <= call.result.safetyScore /\ call.result.safetyScore <= 100

\* C1 witness: a polyline scored against incidents near it
C1_Witness ==
    /\ Scored
    /\ Len(crimeData) > 0
    /\ Len(call.arg) > 0
    /\ RLt(call.result, RInt(90))

\* C2 (as claimed): the grade of every emitted route is the threshold grade
\* of the safetyScore the route carries.
C2_GradeOfStoredScore ==
    \A i \in 1..Len(routes) :
        routes[i].safetyGrade = getSafetyGrade(RInt(routes[i].safetyScore))

\* C3: fastestRoute is the first alternative, in the response's order, of
\* minimum duration; safestRoute is the first alternative of maximum
\* safetyScore.
C3_FirstMinimumAndMaximum ==
    Selected =>
        /\ \A j \in 1..Len(routesData) :
              routesData[fastestRoute].duration <= routesData[j].duration
        /\ \A j \in 1..(fastestRoute - 1) :
              routesData[fastestRoute].duration < routesData[j].duration
        /\ \A j \in 1..Len(processedRoutes) :
              processedRoutes[safestRoute].safetyScore >= processedRoutes[j].safetyScore
        /\ \A j \in 1..(safestRoute - 1) :
              processedRoutes[safestRoute].safetyScore > processedRoutes[j].safetyScore

\* C3 witness: two alternatives tie on duration and the second is safer
C3_Witness ==
    /\ Selected
    /\ Len(routesData) = 2
    /\ routesData[1].duration = routesData[2].duration
    /\ fastestRoute = 1
    /\ safestRoute = 2

\* C4: the emitted list has one entry, of type fastest_safest, exactly when
\* the picked fastest and safest alternatives have the same distance and
\* the same duration; otherwise it has two entries, the fastest first with
\* type fastest, the safest second with type safest.  Every entry's index is
\* its position.
C4_OneOrTwoEntries ==
    Selected =>
        LET fast == routesData[fastestRoute]
            safe == routesData[safestRoute]
            same == /\ fast.distance = safe.distance
                    /\ fast.duration = safe.duration
        IN  /\ Len(routes) \in {1, 2}
            /\ \A i \in 1..Len(routes) : routes[i].index = i - 1
            /\ same <=> (Len(routes) = 1 /\ routes[1].type = "fastest_safest")
            /\ same => SameCandidate(routes[1], fast)
            /\ ~same =>
                /\ Len(routes) = 2
                /\ routes[1].type = "fastest"
                /\ SameCandidate(routes[1], fast)
                /\ routes[2].type = "safest"
                /\ SameCandidate(routes[2], safe)

\* C4 witness: two different alternatives of equal distance and duration
\* are picked, and one entry is emitted
C4_Witness ==
    /\ Selected
    /\ fastestRoute # safestRoute
    /\ Len(routes) = 1
    /\ routes[1].type = "fastest_safest"

\* C5: the route displayed first is an emitted entry: the entry of type
\* safest when two are emitted, the fastest_safest entry when one is; so one
\* of the first two branches of the choice decides; and selectedRouteIndex
\* is that entry's index.
C5_DefaultIsSafest ==
    Selected =>
        /\ selectedRouteIndex + 1 \in 1..Len(routes)
        /\ routes[selectedRouteIndex + 1] = processedRoutes[defaultRoute]
        /\ selectedRouteIndex = processedRoutes[defaultRoute].index
        /\ Len(routes) = 2 => routes[selectedRouteIndex + 1].type = "safest"
        /\ Len(routes) = 1 => routes[selectedRouteIndex + 1].type = "fastest_safest"
        /\ \E i \in 1..Len(routes) : routes[i].type \in {"safest", "fastest_safest"}

\* C5 witness: two entries are emitted and the second is selected
C5_Witness ==
    /\ Selected
    /\ Len(routes) = 2
    /\ selectedRouteIndex = 1

\* C6: with an empty incident set, or an empty polyline, the score is 85.
C6_NoDataDefault ==
    (Scored /\ (Len(crimeData) = 0 \/ Len(call.arg) = 0)) =>
        call.result = RInt(85)

\* C6 witness: a polyline with points is scored against no incidents
C6_Witness ==
    /\ Scored
    /\ Len(crimeData) = 0
    /\ Len(call.arg) > 0
    /\ call.result = RInt(85)

\* C7 (as claimed): a polyline of zero points or one point scores 85 and
\* has no risk segments, whatever the incident set.
C7_ShortPolylineNeutral ==
    /\ (Scored /\ Len(call.arg) <= 1) => call.result = RInt(85)
    /\ (Located /\ Len(call.arg) <= 1) => call.result = << >>

\* The score of a route whose only sampled density is D
C7_ScoreOfDensity(D) ==
    LET raw == RSub(RInt(90), RAdd(RTimes(RMin(Rat(D, 300), Rat(3, 2)), 20),
                                   RTimes(RMin(Rat(D, 500), Rat(3, 2)), 25)))
    IN  RMax(RInt(0), RMin(RInt(100), raw))

\* C7 (amended): a polyline of zero points scores 85 and has no risk
\* segments.  A polyline of one point is scored like any other: 85 when the
\* incident set is empty, otherwise the score of the density D at its point;
\* and it has one risk segment when D > 15, none otherwise.
C7_ShortPolyline ==
    LET D == calculateCrimeDensity(crimeData, call.arg[1][1], call.arg[1][2], Radius)
    IN  /\ (Scored /\ Len(call.arg) = 0) => call.result = RInt(85)
        /\ (Located /\ Len(call.arg) = 0) => call.result = << >>
        /\ (Scored /\ Len(call.arg) = 1) =>
              IF Len(crimeData) = 0 THEN call.result = RInt(85)
              ELSE REq(call.result, C7_ScoreOfDensity(D))
        /\ (Located /\ Len(call.arg) = 1) =>
              Len(call.result) = (IF D > 15 THEN 1 ELSE 0)

\* C7 witness: a single point with incidents around it is scored, and the
\* score is not the default
C7_Witness ==
    /\ Scored
    /\ Len(call.arg) = 1
    /\ Len(crimeData) > 0
    /\ ~REq(call.result, RInt(85))

\* The records whose latitude and longitude both parse
C8_Parsable(cd) ==
    SelectSeq(cd, LAMBDA crime :
        ~parseFloat(crime.latitude).nan /\ ~parseFloat(crime.longitude).nan)

\* C8 (as claimed): a record whose latitude or longitude does not parse is
\* skipped: density, score and risk segments are those of the incident set
\* without such records.
C8_MalformedSkipped ==
    /\ Measured => call.result =
          calculateCrimeDensity(C8_Parsable(crimeData), call.arg[1], call.arg[2], Radius)
    /\ Scored => REq(call.result,
          calculateRouteSafetyScore(C8_Parsable(crimeData), call.arg))
    /\ Located => call.result =
          identifyHighRiskAreas(C8_Parsable(crimeData), call.arg)

\* The weight rules, first match first, on a lower-cased text
C9_Weight(text) ==
    IF includes(text, s_assault) \/ includes(text, s_robbery) THEN 8
    ELSE IF includes(text, s_burglary) \/ includes(text, s_theft)
            \/ includes(text, s_larceny) THEN 5
    ELSE IF includes(text, s_arson) THEN 6
    ELSE IF includes(text, s_fraud) THEN 3
    ELSE IF includes(text, s_vehicle) \/ includes(text, s_auto) THEN 3
    ELSE 1

\* The record lies within the radius of (lat, lon)
C9_Within(crime, lat, lon) ==
    LET la == parseFloat(crime.latitude)
        lo == parseFloat(crime.longitude)
    IN  /\ ~la.nan
        /\ ~lo.nan
        /\ (la.v - lat) * (la.v - lat) + (lo.v - lon) * (lo.v - lon)
              <= Radius * Radius

\* The sum of the weights of the records of cd chosen by the set idx
RECURSIVE C9_SumWeights(_, _)
C9_SumWeights(cd, idx) ==
    IF idx = {} THEN 0
    ELSE LET i == CHOOSE i \in idx : TRUE
         IN  C9_Weight(toLowerCase(cd[i].incident_category))
                + C9_SumWeights(cd, idx \ {i})

\* C9 (as claimed): the density at a point is the sum of the rule weights
\* of the records within the radius of the point; records farther away add
\* nothing.
C9_DensityIsWeightedCount ==
    Measured =>
        call.result = C9_SumWeights(crimeData,
            { i \in 1..Len(crimeData) :
                C9_Within(crimeData[i], call.arg[1], call.arg[2]) })

\* C10 (as claimed): a record with no category is weighed by its
\* description: alone in the incident set, within the radius, with a
\* description that contains assault, it gives density 8.
C10_DescriptionFallback ==
    ( /\ Measured
      /\ Len(crimeData) = 1
      /\ crimeData[1].incident_category = << >>
      /\ includes(toLowerCase(crimeData[1].incident_description), s_assault)
      /\ C9_Within(crimeData[1], call.arg[1], call.arg[2]) )
    => call.result = 8

\* The density at point number i (from 0) of the polyline of the call
DensityAt(i) ==
    calculateCrimeDensity(crimeData, call.arg[i + 1][1], call.arg[i + 1][2], Radius)

\* The sum of f over the set S
RECURSIVE SumOver(_, _)
SumOver(f, S) ==
    IF S = {} THEN 0
    ELSE LET i == CHOOSE i \in S : TRUE IN f[i] + SumOver(f, S \ {i})

\* The largest value of f on the non-empty set S
MaxOver(f, S) == LET i == CHOOSE i \in S : \A k \in S : f[k] <= f[i] IN f[i]

\* The indices of the polyline of the call that are multiples of k
Multiples(k) == { i \in 0..(Len(call.arg) - 1) : i % k = 0 }

\* C11: for a polyline with points and an incident set with records, the
\* score is 90 - (min(avg/300, 1.5)*20 + min(max/500, 1.5)*25) clamped to
\* 0..100, avg the mean and max the maximum of the density over the points
\* of index 0, 5, 10, ...; the mean divides by the number of those points.
C11_ScoreFormula ==
    (Scored /\ Len(call.arg) > 0 /\ Len(crimeData) > 0) =>
        LET S == Multiples(5)
            D == [i \in S |-> DensityAt(i)]
            avg == Rat(SumOver(D, S), Cardinality(S))
            max == MaxOver(D, S)
            raw == RSub(RInt(90),
                        RAdd(RTimes(RMin(ROver(avg, 300), Rat(3, 2)), 20),
                             RTimes(RMin(Rat(max, 500), Rat(3, 2)), 25)))
            clamped == IF RLt(raw, RInt(0)) THEN RInt(0)
                       ELSE IF RLt(RInt(100), raw) THEN RInt(100) ELSE raw
        IN  REq(call.result, clamped)

\* C11 witness: eleven points are scored, three of them sampled, each with
\* incidents around it, and the density differs between sampled points
C11_Witness ==
    /\ Scored
    /\ Len(call.arg) = 11
    /\ DensityAt(0) > DensityAt(5)
    /\ DensityAt(5) > 0
    /\ DensityAt(10) > 0

\* The decimal text of a natural number
RECURSIVE Numeral(_)
Numeral(n) ==
    IF n < 10 THEN << Digits[n + 1] >>
    ELSE Append(Numeral(n \div 10), Digits[(n % 10) + 1])

\* The incident set of the call with one more assault, at point number i
\* of the polyline of the call
WithAssaultAt(i) ==
    Append(crimeData, Incident(Numeral(call.arg[i + 1][1]),
                               Numeral(call.arg[i + 1][2]), t_Assault, t_Empty))

\* C12 (as claimed): one more assault at a sampled point lowers the score
\* of the route, or leaves it equal when it is 0 already; the score never
\* rises.
C12_AssaultLowersScore ==
    Scored =>
        \A i \in Multiples(5) :
            LET after == calculateRouteSafetyScore(WithAssaultAt(i), call.arg)
            IN  /\ RLe(after, call.result)
                /\ RLt(after, call.result) \/ REq(call.result, RInt(0))

\* C12 (amended): with records in the incident set already, one more
\* assault at a sampled point never raises the score, and lowers it when
\* the mean density over the sampled points is below 450, the cap of the
\* mean's term; from 450 on the score may stay equal, and it never
\* goes below 22.5.  The rounded safetyScore of the route never rises and
\* may stay equal.  With no record in the incident set the score is 85 and
\* the assault raises it, to 90 - 8 m/(15 k) - 2/5 for k sampled points,
\* m of them within the radius of the assault.
C12_AssaultNeverRaisesScoredRoute ==
    Scored =>
        \A i \in Multiples(5) :
            LET after == calculateRouteSafetyScore(WithAssaultAt(i), call.arg)
                S == Multiples(5)
                D == [k \in S |-> DensityAt(k)]
            IN  IF Len(crimeData) = 0
                THEN /\ call.result = RInt(85)
                     /\ LET m == Cardinality({ k \in S :
                                    (call.arg[k + 1][1] - call.arg[i + 1][1]) ^ 2
                                    + (call.arg[k + 1][2] - call.arg[i + 1][2]) ^ 2
                                        <= Radius * Radius })
                        IN  REq(after, RSub(Rat(448, 5),
                                            Rat(8 * m, 15 * Cardinality(S))))
                     /\ RLt(call.result, after)
                ELSE /\ RLe(after, call.result)
                     /\ MathRound(after) <= MathRound(call.result)
                     /\ RLe(Rat(45, 2), after)
                     /\ SumOver(D, S) < 450 * Cardinality(S)
                            => RLt(after, call.result)

\* C12 witness: a route through incidents is scored, and one more assault
\* at its second sampled point would lower the score by less than a half,
\* leaving the rounded score equal
C12_Witness ==
    /\ Scored
    /\ Len(crimeData) > 0
    /\ Len(call.arg) > 5
    /\ LET after == calculateRouteSafetyScore(WithAssaultAt(5), call.arg)
       IN  /\ RLt(after, call.result)
           /\ MathRound(after) = MathRound(call.result)

\* The k-th smallest element of the set S of numbers
NthOf(S, k) == CHOOSE i \in S : Cardinality({ j \in S : j < i }) = k - 1

\* C13: identifyHighRiskAreas returns one segment for every inspected point
\* (index 0, 10, 20, ...) whose density is above 15, and for no other; the
\* segment's level is high when the density is above 50 and medium
\* otherwise; the segments come in the order of the polyline.
C13_RiskThresholds ==
    Located =>
        LET Flagged == { i \in Multiples(10) : DensityAt(i) > 15 }
        IN  /\ Len(call.result) = Cardinality(Flagged)
            /\ \A k \in 1..Len(call.result) :
                  LET i == NthOf(Flagged, k)
                  IN  /\ call.result[k].lat = call.arg[i + 1][1]
                      /\ call.result[k].lng = call.arg[i + 1][2]
                      /\ call.result[k].risk =
                            (IF DensityAt(i) > 50 THEN "high" ELSE "medium")

\* C13 witness: two segments are returned, the first for a point of
\* density 50 with level medium, the second with level high
C13_Witness ==
    /\ Located
    /\ Len(call.result) = 2
    /\ DensityAt(0) = 50
    /\ call.result[1].risk = "medium"
    /\ call.result[2].risk = "high"

\* The points of the polyline of the call whose index is a multiple of k,
\* in the order of the polyline
PointsAtMultiples(k) ==
    [j \in 1..Cardinality(Multiples(k)) |-> call.arg[NthOf(Multiples(k), j) + 1]]

\* C14: the scorer takes its densities at the points of index 0, 5, 10, ...
\* of the polyline and at no other, 21 of them for 101 points; the locator
\* inspects the points of index 0, 10, 20, ... and no other, 11 of them for
\* 101 points: every segment lies at such a point, and when every point of
\* the polyline has a density above 15 the segments lie at exactly those.
C14_Strides ==
    /\ Scored =>
          /\ everyNth(call.arg, 5) = PointsAtMultiples(5)
          /\ Len(call.arg) = 101 => Len(everyNth(call.arg, 5)) = 21
    /\ Located =>
          LET at == [k \in 1..Len(call.result) |->
                        <<call.result[k].lat, call.result[k].lng>>]
              inspected == PointsAtMultiples(10)
          IN  /\ \A k \in 1..Len(at) : \E j \in 1..Len(inspected) : at[k] = inspected[j]
              /\ (\A i \in 0..(Len(call.arg) - 1) : DensityAt(i) > 15) =>
                    /\ at = inspected
                    /\ Len(call.arg) = 101 => Len(at) = 11

\* C14 witness: a polyline of 101 points with a density above 15 at every
\* point is inspected, and 11 segments are returned
C14_Witness ==
    /\ Located
    /\ Len(call.arg) = 101
    /\ \A i \in 0..100 : DensityAt(i) > 15
    /\ Len(call.result) = 11

\* The records of the incident set that add to the density at (lat, lon)
Contributors(lat, lon) ==
    SelectSeq(crimeData, LAMBDA crime :
        ~jsGt(distanceSq(crime, lat, lon), Radius * Radius))

\* C15 (as claimed): the description of every returned segment is built
\* from the records that add to the density at its point: it is never the
\* generic text, and it names the most frequent category among those
\* records (the first of them, on a tie) with its count.
C15_DescriptionFromContributors ==
    Located =>
        \A k \in 1..Len(call.result) :
            LET seg == call.result[k]
                near == Contributors(seg.lat, seg.lng)
                count(j) == Cardinality({ m \in 1..Len(near) :
                                crimeKey(near[m]) = crimeKey(near[j]) })
            IN  /\ Len(near) > 0
                /\ ~seg.description.generic
                /\ \E j \in 1..Len(near) :
                      /\ \A m \in 1..Len(near) : count(m) <= count(j)
                      /\ \A m \in 1..(j - 1) : count(m) < count(j)
                      /\ seg.description.crime = toLowerCase(crimeKey(near[j]))
                      /\ seg.description.count = count(j)

\* C16 (as claimed): the result of a request that was started under another
\* transport mode than the current one is discarded: the routes list holds
\* no route computed for the old mode, and no markers of that request are
\* on the map.
C16_SupersededResultDiscarded ==
    closure.transportMode # transportMode =>
        /\ routes = << >>
        /\ ~startMarkerRef
        /\ ~endMarkerRef

\* C17: a request that ends because a geocoding lookup fails or finds no
\* match, or because the routing request fails or returns no alternative,
\* commits nothing: no alternative is scored, the routes list is empty, no
\* default route is chosen or selected, no marker is on the map, the
\* history is as it was, and isCalculating is reset.
C17_FailureCommitsNothing ==
    [][ (pc # "idle" /\ pc' = "idle" /\ routesData' = << >>) =>
            /\ processedRoutes' = << >>
            /\ routes' = << >>
            /\ defaultRoute' = 0
            /\ selectedRouteIndex' = 0
            /\ ~startMarkerRef'
            /\ ~endMarkerRef'
            /\ savedRoutes' = savedRoutes
            /\ ~isCalculating' ]_vars

\* C17 witness: after a request that succeeded, a second request found
\* both locations and was abandoned at the routing step
C17_Witness ==
    /\ pc = "idle"
    /\ clock = 4
    /\ startResp = "match"
    /\ endResp = "match"
    /\ routesData = << >>
    /\ Len(savedRoutes) = 1
    /\ routes = << >>

\* C18: the two lookups are issued in one step, at the start of the
\* request; the routing request is issued only from the geocoding step,
\* with a match for both locations; alternatives are scored only at the
\* routing step, after both matches, when the response holds at least one
\* alternative, all of them at once, once in a request: nothing of the
\* request was scored before, and the request ends with that step.
C18_StepOrder ==
    [][ /\ (pc' = "geocoding" /\ pc # "geocoding") =>
              /\ pc = "idle"
              /\ startResp' = "none"
              /\ endResp' = "none"
              /\ processedRoutes' = << >>
        /\ (pc' = "routing" /\ pc # "routing") =>
              /\ pc = "geocoding"
              /\ startResp' = "match"
              /\ endResp' = "match"
              /\ processedRoutes' = << >>
        /\ processedRoutes' # processedRoutes =>
              \/ /\ pc = "idle"
                 /\ processedRoutes' = << >>
              \/ /\ pc = "routing"
                 /\ pc' = "idle"
                 /\ startResp = "match"
                 /\ endResp = "match"
                 /\ processedRoutes = << >>
                 /\ Len(routesData') >= 1
                 /\ Len(processedRoutes') = Len(routesData')
                 /\ \A i \in 1..Len(routesData') :
                       SameCandidate(processedRoutes'[i], routesData'[i]) ]_vars

\* C18 witness: a request has gone through both lookups and the routing
\* request, and its two alternatives are scored
C18_Witness ==
    /\ pc = "idle"
    /\ startResp = "match"
    /\ endResp = "match"
    /\ Len(routesData) = 2
    /\ Len(processedRoutes) = 2

\* C19 (as claimed): the alternatives of a request are scored against the
\* incident set that is current when they are scored.
C19_ScoredAgainstCurrentSet ==
    [][ (pc = "routing" /\ processedRoutes' # << >>) =>
            \A i \in 1..Len(processedRoutes') :
                LET route == processedRoutes'[i]
                    score == calculateRouteSafetyScore(crimeData, route.coordinates)
                IN  /\ route.safetyScore = MathRound(score)
                    /\ route.safetyGrade = getSafetyGrade(score)
                    /\ route.highRiskAreas =
                          identifyHighRiskAreas(crimeData, route.coordinates) ]_vars

\* C20: the score, the grade and the risk segments of an alternative depend
\* on its polyline and on the incident set of the request alone: two
\* alternatives of a response with the same polyline carry the same three
\* values, whatever their place, distance and duration and whatever the
\* other alternatives are, and the values are those of a call made on the
\* polyline alone, whatever was planned before.
C20_Deterministic ==
    Selected =>
        /\ \A i \in 1..Len(processedRoutes), j \in 1..Len(processedRoutes) :
              processedRoutes[i].coordinates = processedRoutes[j].coordinates =>
                  /\ processedRoutes[i].safetyScore = processedRoutes[j].safetyScore
                  /\ processedRoutes[i].safetyGrade = processedRoutes[j].safetyGrade
                  /\ processedRoutes[i].highRiskAreas = processedRoutes[j].highRiskAreas
        /\ \A i \in 1..Len(processedRoutes) :
              LET alone == processRoutes(closure.crimeData, << routesData[i] >>)[1]
              IN  /\ processedRoutes[i].safetyScore = alone.safetyScore
                  /\ processedRoutes[i].safetyGrade = alone.safetyGrade
                  /\ processedRoutes[i].highRiskAreas = alone.highRiskAreas

\* C20 witness: in the second request of a session, two alternatives with
\* one polyline through incidents and different durations are scored
C20_Witness ==
    /\ Selected
    /\ Len(savedRoutes) = 2
    /\ Len(processedRoutes) = 2
    /\ processedRoutes[1].coordinates = processedRoutes[2].coordinates
    /\ routesData[1].duration # routesData[2].duration
    /\ processedRoutes[2].safetyScore # 85

----------------------------------------------------------------------------
(* The saved-route history: a session that starts with the history the     *)
(* mount effect read from localStorage, plans routes, and loads and        *)
(* deletes saved routes                                                    *)

\* saveRoute keeps prev.slice(0, Kept) behind the new record
Kept == 9

\* The record stored i plannings before this session
Stored(i) ==
    [startLocation |-> IF i % 2 = 1 THEN t_Origin ELSE t_Destination,
     endLocation |-> IF i % 2 = 1 THEN t_Destination ELSE t_Origin,
     transportMode |-> IF i % 3 = 1 THEN "walking"
                       ELSE IF i % 3 = 2 THEN "cycling" ELSE "driving",
     timestamp |-> 0 - i]

\* What localStorage holds at mount: nothing, or a history that an earlier
\* session wrote, up to the longest one saveRoute leaves
StoredHistories == { [i \in 1..n |-> Stored(i)] : n \in {0, Kept, Kept + 1} }

\* The feed of a session whose fetch has settled
LoadedFeed == << Incident(t_0, t_0, t_Assault, t_Empty) >>

InitHistory ==
    /\ crimeData = LoadedFeed
    /\ call = NoCall
    /\ crimeFetched = TRUE
    /\ startLocation = t_Origin
    /\ endLocation = t_Destination
    /\ transportMode = "walking"
    /\ isCalculating = FALSE
    /\ pc = "idle"
    /\ startResp = "none"
    /\ endResp = "none"
    /\ startMarkerRef = FALSE
    /\ endMarkerRef = FALSE
    /\ closure = NoClosure
    /\ routesData = << >>
    /\ processedRoutes = << >>
    /\ fastestRoute = 0
    /\ safestRoute = 0
    /\ defaultRoute = 0
    /\ routes = << >>
    /\ selectedRouteIndex = 0
    /\ savedRoutes \in StoredHistories
    /\ clock = 0
    /\ Outside

\* The rows of the history panel that the user clicks: the first two and
\* the last
Rows(history) == { i \in {1, 2, Len(history)} : i >= 1 /\ i <= Len(history) }

\* savedRoutes.filter(route => route.timestamp !== timestamp)
withoutTimestamp(history, timestamp) ==
    LET keep(route) == route.timestamp # timestamp
    IN  SelectSeq(history, keep)

\* Mutant: the clicked row's record kept and the others removed
deleteRoute_keepsClicked(timestamp) ==
    /\ clock < MaxClock
    /\ clock' = clock + 1
    /\ LET keep(route) == route.timestamp = timestamp
       IN  savedRoutes' = SelectSeq(savedRoutes, keep)
    /\ UNCHANGED <<crimeData, crimeFetched, startLocation, endLocation,
                   transportMode, isCalculating, pc, startResp, endResp,
                   closure, routesData, processedRoutes, fastestRoute,
                   safestRoute, defaultRoute, routes, selectedRouteIndex,
                   startMarkerRef, endMarkerRef, call>>

\* deleteRoute(timestamp), called from the delete button of a row
deleteRoute(timestamp) ==
    /\ clock < MaxClock
    /\ clock' = clock + 1
    /\ savedRoutes' = withoutTimestamp(savedRoutes, timestamp)
    /\ UNCHANGED <<crimeData, crimeFetched, startLocation, endLocation,
                   transportMode, isCalculating, pc, startResp, endResp,
                   closure, routesData, processedRoutes, fastestRoute,
                   safestRoute, defaultRoute, routes, selectedRouteIndex,
                   startMarkerRef, endMarkerRef, call>>

DeleteRoute ==
    \E i \in Rows(savedRoutes) : deleteRoute(savedRoutes[i].timestamp)

\* loadRoute(route), called from a row, and the effect on transportMode
\* that follows the render when the mode differs: clearCurrentRoute
loadRoute(route) ==
    /\ clock < MaxClock
    /\ clock' = clock + 1
    /\ startLocation' = route.startLocation
    /\ endLocation' = route.endLocation
    /\ transportMode' = route.transportMode
    /\ IF route.transportMode # transportMode
       THEN /\ routes' = << >>
            /\ selectedRouteIndex' = 0
            /\ startMarkerRef' = FALSE
            /\ endMarkerRef' = FALSE
       ELSE UNCHANGED <<routes, selectedRouteIndex, startMarkerRef,
                        endMarkerRef>>
    /\ UNCHANGED <<crimeData, crimeFetched, isCalculating, pc, startResp,
                   endResp, closure, routesData, processedRoutes,
                   fastestRoute, safestRoute, defaultRoute, savedRoutes,
                   call>>

LoadRoute == \E i \in Rows(savedRoutes) : loadRoute(savedRoutes[i])

NextHistory ==
    \/ CalculateRouteStart /\ UNCHANGED outsideVars
    \/ GeocodeReturn /\ UNCHANGED outsideVars
    \/ RouteReturn /\ UNCHANGED outsideVars
    \/ DeleteRoute /\ UNCHANGED outsideVars
    \/ LoadRoute /\ UNCHANGED outsideVars

SpecHistory == InitHistory /\ [][NextHistory]_vars

\* The history is ordered most recent first
NewestFirst(history) ==
    \A i \in 1..Len(history), j \in 1..Len(history) :
        i < j => history[i].timestamp > history[j].timestamp

\* The step ends a planning request with alternatives emitted
PlanningSucceeds == pc = "routing" /\ pc' = "idle" /\ routes' # << >>

\* The step ends a planning request without alternatives
PlanningFails == pc # "idle" /\ pc' = "idle" /\ routes' = << >>

\* The records of a history whose timestamp is not t, in their order
C21_Remaining(history, t) ==
    LET rest[k \in 0..Len(history)] ==
            IF k = 0 THEN << >>
            ELSE IF history[k].timestamp = t THEN rest[k - 1]
            ELSE Append(rest[k - 1], history[k])
    IN  rest[Len(history)]

\* C21: the history holds at most 10 records, most recent first; a
\* successful planning puts exactly one new record at the head and keeps
\* the 9 most recent of the others behind it, a failed planning leaves the
\* history alone, a deletion removes exactly the records with one timestamp
\* and keeps the others in their order, and no other step changes it.
C21_History ==
    /\ [](Len(savedRoutes) <= 10 /\ NewestFirst(savedRoutes))
    /\ [][ /\ PlanningSucceeds =>
                /\ Len(savedRoutes') =
                      (IF Len(savedRoutes) < 10 THEN Len(savedRoutes) + 1 ELSE 10)
                /\ \A j \in 1..Len(savedRoutes) :
                      savedRoutes'[1].timestamp > savedRoutes[j].timestamp
                /\ savedRoutes'[1].startLocation = closure.startLocation
                /\ savedRoutes'[1].endLocation = closure.endLocation
                /\ savedRoutes'[1].transportMode = closure.transportMode
                /\ \A i \in 2..Len(savedRoutes') :
                      savedRoutes'[i] = savedRoutes[i - 1]
           /\ PlanningFails => savedRoutes' = savedRoutes
           /\ (~PlanningSucceeds /\ savedRoutes' # savedRoutes) =>
                \E t \in { savedRoutes[i].timestamp : i \in 1..Len(savedRoutes) } :
                    savedRoutes' = C21_Remaining(savedRoutes, t)
         ]_vars

\* C21's case: a session that began with 10 stored records has planned a
\* route, which dropped the oldest record, and has deleted the second row
C21_Witness ==
    /\ Len(savedRoutes) = 9
    /\ savedRoutes[1].timestamp > 0
    /\ savedRoutes[2] = Stored(2)
    /\ savedRoutes[9] = Stored(9)

----------------------------------------------------------------------------
(* The page: the planner with its map, opened from the listing popup with  *)
(* the URL parameters origin and destination                               *)

\* getRouteColor of displayRoute
getRouteColor(type) ==
    IF type = "safest" THEN "#10b981"
    ELSE IF type = "fastest" THEN "#f59e0b"
    ELSE IF type = "fastest_safest" THEN "#3b82f6"
    ELSE IF type = "balanced" THEN "#3b82f6"
    ELSE "#6b7280"

\* L.polyline(route.coordinates, {color: routeColor, ...})
Polyline(route) ==
    [coordinates |-> route.coordinates, color |-> getRouteColor(route.type)]

\* What clearCurrentRoute does to the map's polylines and the summary:
\* every polyline layer removed, currentRouteRef and routeInfo null.  A
\* pending draw is not cancelled.
clearedOnMap ==
    /\ polylines' = << >>
    /\ currentRouteRef' = 0
    /\ routeInfo' = NoInfo
    /\ UNCHANGED drawTimers

\* displayRoute(route) up to its setTimeout: the polylines removed, the
\* draw left to a 100 ms timer
displayRoute(route) ==
    /\ polylines' = << >>
    /\ currentRouteRef' = 0
    /\ drawTimers' = Append(drawTimers, route)
    /\ UNCHANGED routeInfo

\* The callback of displayRoute's timer.  Timers of equal delay run in the
\* order they were set.
DrawTimer ==
    /\ drawTimers # << >>
    /\ LET route == Head(drawTimers)
       IN  /\ polylines' = Append(polylines, Polyline(route))
           /\ currentRouteRef' = Polyline(route)
           /\ routeInfo' = [duration |-> route.details.duration_seconds,
                            distance |-> route.details.distance_meters]
    /\ drawTimers' = Tail(drawTimers)
    /\ UNCHANGED <<crimeData, call, planVars>>

\* The Calculate button (enabled with both locations and no request
\* running): calculateRoute of the current render up to its first await
ClickCalculate == CalculateRouteStart /\ clearedOnMap

\* calculateRoute after STEP 1 has settled: nothing on the map changes
Geocoded == GeocodeReturn /\ UNCHANGED mapVars

\* calculateRoute after the routing request has settled: with alternatives,
\* the polylines are removed and displayRoute(defaultRoute) is called
Routed ==
    /\ RouteReturn
    /\ IF routes' # << >>
       THEN displayRoute(processedRoutes'[defaultRoute'])
       ELSE UNCHANGED mapVars

\* The state that the first render's calculateRoute reads: the useState
\* initial values
MountRender ==
    [startLocation |-> << >>, endLocation |-> << >>, isCalculating |-> FALSE,
     transportMode |-> "walking", crimeData |-> << >>]

\* Mutant: the guard looks at isCalculating alone
guardReturns_busyOnly(render) == render.isCalculating

\* calculateRoute's guard, on the state of the render it belongs to
guardReturns(render) ==
    \/ render.startLocation = << >>
    \/ render.endLocation = << >>
    \/ render.isCalculating

\* calculateRoute of a render past its guard, up to its first await
beginRequest(render) ==
    /\ isCalculating' = TRUE
    /\ routes' = << >>
    /\ selectedRouteIndex' = 0
    /\ startMarkerRef' = FALSE
    /\ endMarkerRef' = FALSE
    /\ startResp' = "none"
    /\ endResp' = "none"
    /\ closure' = [crimeData |-> render.crimeData,
                   startLocation |-> render.startLocation,
                   endLocation |-> render.endLocation,
                   transportMode |-> render.transportMode]
    /\ routesData' = << >>
    /\ processedRoutes' = << >>
    /\ fastestRoute' = 0
    /\ safestRoute' = 0
    /\ defaultRoute' = 0
    /\ pc' = "geocoding"
    /\ UNCHANGED <<crimeData, crimeFetched, startLocation, endLocation,
                   transportMode, savedRoutes, clock, call>>

\* The URL effect's timer, one second after mount: calculateRoute() of the
\* first render, the render the effect belongs to
AutoStart ==
    /\ autoStart = "pending"
    /\ autoStart' = IF isCalculating THEN "ran busy" ELSE "ran idle"
    /\ IF guardReturns(MountRender)
       THEN UNCHANGED <<crimeData, call, planVars, mapVars>>
       ELSE beginRequest(MountRender) /\ clearedOnMap

\* The page after its mount effects and the render that follows them: the
\* URL held both parameters, the locations are set from them, the timer is
\* pending; the feed has loaded
InitMount ==
    /\ crimeData = LoadedFeed
    /\ call = NoCall
    /\ PlanIdle
    /\ autoStart = "pending"
    /\ MapEmpty
    /\ PopupClosed

NextMount ==
    \/ AutoStart /\ UNCHANGED popupVars
    \/ ClickCalculate /\ UNCHANGED <<autoStart, popupVars>>
    \/ Geocoded /\ UNCHANGED <<autoStart, popupVars>>
    \/ Routed /\ UNCHANGED <<autoStart, popupVars>>
    \/ DrawTimer /\ UNCHANGED <<autoStart, popupVars>>

SpecMount == InitMount /\ [][NextMount]_vars

\* C22 (as claimed): when the URL timer runs and no request is running, a
\* planning request for the URL's origin and destination starts: the call
\* passes the guard and the lookups are issued.
C22_AutoStartPlans ==
    [][ (autoStart = "pending" /\ autoStart' = "ran idle") =>
            /\ pc' = "geocoding"
            /\ isCalculating'
            /\ closure'.startLocation = startLocation
            /\ closure'.endLocation = endLocation ]_vars

----------------------------------------------------------------------------
(* The map in use: routes are planned, route cards are clicked, the mode   *)
(* is changed and the locations are switched while draws are pending       *)

MaxDraws == 2         \* delayed draws of displayRoute pending at a time

\* selectRoute(routeIndex), called from the card of routes[routeIndex]
selectRoute(routeIndex) ==
    /\ Len(drawTimers) < MaxDraws
    /\ clock < MaxClock
    /\ clock' = clock + 1
    /\ selectedRouteIndex' = routeIndex
    /\ displayRoute(routes[routeIndex + 1])
    /\ UNCHANGED <<crimeData, crimeFetched, startLocation, endLocation,
                   transportMode, isCalculating, pc, startResp, endResp,
                   closure, routesData, processedRoutes, fastestRoute,
                   safestRoute, defaultRoute, routes, startMarkerRef,
                   endMarkerRef, savedRoutes, call>>

SelectRoute == \E routeIndex \in 0..(Len(routes) - 1) : selectRoute(routeIndex)

\* switchLocations: the location texts exchanged, clearCurrentRoute,
\* setRouteInfo(null)
switchLocations ==
    /\ clock < MaxClock
    /\ clock' = clock + 1
    /\ startLocation' = endLocation
    /\ endLocation' = startLocation
    /\ routes' = << >>
    /\ selectedRouteIndex' = 0
    /\ startMarkerRef' = FALSE
    /\ endMarkerRef' = FALSE
    /\ clearedOnMap
    /\ UNCHANGED <<crimeData, crimeFetched, transportMode, isCalculating, pc,
                   startResp, endResp, closure, routesData, processedRoutes,
                   fastestRoute, safestRoute, defaultRoute, savedRoutes,
                   call>>

\* The mode selector's onChange and the effect that follows the render
ModeChanged == ChangeTransportMode /\ clearedOnMap

InitMap ==
    /\ crimeData = LoadedFeed
    /\ call = NoCall
    /\ PlanIdle
    /\ Outside

NextMap ==
    \/ ClickCalculate /\ UNCHANGED <<autoStart, popupVars>>
    \/ Geocoded /\ UNCHANGED <<autoStart, popupVars>>
    \/ Routed /\ UNCHANGED <<autoStart, popupVars>>
    \/ DrawTimer /\ UNCHANGED <<autoStart, popupVars>>
    \/ SelectRoute /\ UNCHANGED <<autoStart, popupVars>>
    \/ switchLocations /\ UNCHANGED <<autoStart, popupVars>>
    \/ ModeChanged /\ UNCHANGED <<autoStart, popupVars>>

SpecMap == InitMap /\ [][NextMap]_vars

\* C23 (as claimed): the map shows at most one route polyline, the one of
\* routes[selectedRouteIndex]; with an empty routes list no route polyline
\* is shown and routeInfo is null.
C23_OnePolylineOfSelection ==
    /\ Len(polylines) <= 1
    /\ polylines # << >> =>
          /\ routes # << >>
          /\ polylines[1].coordinates = routes[selectedRouteIndex + 1].coordinates
    /\ routes = << >> => (polylines = << >> /\ routeInfo = NoInfo)

----------------------------------------------------------------------------
(* The listing popup: the promise of extractAddressAndRooms that sends the *)
(* extractAddress message to the content script                            *)

maxAttempts == 3

\* The page's own state, which the popup does not touch
pageVars == <<crimeData, call, planVars, autoStart, mapVars>>

\* resolve or reject of the promise: only the first call settles it
settle(how) == settled' = IF settled = "pending" THEN how ELSE settled

\* attemptMessage: the counter incremented, the 5-second timeout armed, the
\* message sent
attemptMessage ==
    /\ attempts' = attempts + 1
    /\ timeouts' = timeouts \cup {attempts + 1}
    /\ replies' = replies \cup {attempts + 1}
    /\ UNCHANGED settled

\* The executor of the promise: the first attemptMessage()
ExtractStart ==
    /\ attempts = 0
    /\ attemptMessage
    /\ UNCHANGED retries

\* A 1-second retry timer runs attemptMessage
RetryTimer ==
    /\ retries > 0
    /\ retries' = retries - 1
    /\ attemptMessage

\* What a failed or timed out attempt does, with the counter as it is when
\* the callback runs
retryOrReject ==
    IF attempts < maxAttempts
    THEN retries' = retries + 1 /\ UNCHANGED settled
    ELSE settle("rejected") /\ UNCHANGED retries

\* The 5-second timeout of attempt a runs
TimeoutFires ==
    \E a \in timeouts :
        /\ timeouts' = timeouts \ {a}
        /\ retryOrReject
        /\ UNCHANGED <<attempts, replies>>

\* The sendMessage callback of attempt a runs, with chrome.runtime.lastError
\* set or with a response; it may come after the attempt's timeout has run
MessageCallback ==
    \E a \in replies, lastError \in BOOLEAN :
        /\ replies' = replies \ {a}
        /\ timeouts' = timeouts \ {a}
        /\ IF lastError
           THEN retryOrReject
           ELSE settle("resolved") /\ UNCHANGED retries
        /\ UNCHANGED attempts

InitPopup ==
    /\ crimeData = << >>
    /\ call = NoCall
    /\ PlanIdle
    /\ Outside

NextMessage ==
    \/ ExtractStart /\ UNCHANGED <<pageVars, safetyVars>>
    \/ RetryTimer /\ UNCHANGED <<pageVars, safetyVars>>
    \/ TimeoutFires /\ UNCHANGED <<pageVars, safetyVars>>
    \/ MessageCallback /\ UNCHANGED <<pageVars, safetyVars>>

SpecMessage == InitPopup /\ [][NextMessage]_vars

\* C24 (as claimed): the message is sent at most 3 times, the promise
\* settles once, and no attempt starts after it has settled.
C24_AtMostThreeAttempts ==
    /\ [](attempts <= 3)
    /\ [][ /\ settled # "pending" => settled' = settled
           /\ attempts' > attempts => settled = "pending" ]_vars

----------------------------------------------------------------------------
(* The listing popup: the safety analysis that is loaded for the listing's *)
(* address and borough                                                     *)

MaxCalls == 3         \* getSafetyAnalysis invocations in a popup's life

\* The listing's address (rawAddress || address) and borough, as texts
Addresses == {"", "12 Elm St", "7 Oak Ave"}
Boroughs == {"null", "Brooklyn"}

\* The safety effect, run after a render in which rawAddress, address or
\* borough differ from the render before: the cleanup of the effect's
\* last run clears its timer, then the body runs
safetyEffect(addressForSafety, newBorough) ==
    LET hasAddressChanged == addressForSafety # ""
                             /\ addressForSafety # lastSafetyAddressRef
        hasBoroughChanged == newBorough # lastSafetyBoroughRef
    IN  IF addressForSafety # "" /\ (hasAddressChanged \/ hasBoroughChanged)
        THEN /\ lastSafetyAddressRef' = addressForSafety
             /\ lastSafetyBoroughRef' = newBorough
             /\ safetyData' = NoData
             /\ safetyError' = ""
             /\ safetyTimer' = << [address |-> addressForSafety,
                                   borough |-> newBorough] >>
        ELSE /\ safetyTimer' = << >>
             /\ UNCHANGED <<lastSafetyAddressRef, lastSafetyBoroughRef,
                            safetyData, safetyError>>

\* setRawAddress / setAddress / setBorough with new values, the render and
\* the safety effect
ListingSet ==
    \E a \in Addresses, b \in Boroughs :
        /\ <<a, b>> # <<rawAddress, borough>>
        /\ rawAddress' = a
        /\ borough' = b
        /\ safetyEffect(a, b)
        /\ UNCHANGED <<safetyCalls, safetyRequestRef, safetyLoading>>

\* safetyRequestRef.current.abort(): the request of that controller, when
\* it is still in flight, will end with an AbortError
abortCurrent(calls) ==
    IF safetyRequestRef # 0
    THEN [calls EXCEPT ![safetyRequestRef].aborted = TRUE]
    ELSE calls

\* The effect's 100 ms timer: getSafetyAnalysis(address, borough) up to its
\* await of fetch
SafetyTimer ==
    /\ safetyTimer # << >>
    /\ Len(safetyCalls) < MaxCalls
    /\ safetyTimer' = << >>
    /\ safetyCalls' = Append(abortCurrent(safetyCalls),
                             [address |-> safetyTimer[1].address,
                              aborted |-> FALSE, pc |-> "fetch"])
    /\ safetyRequestRef' = Len(safetyCalls) + 1
    /\ safetyLoading' = TRUE
    /\ safetyError' = ""
    /\ UNCHANGED <<rawAddress, borough, lastSafetyAddressRef,
                   lastSafetyBoroughRef, safetyData>>

\* What the request of an invocation comes to: an AbortError when its
\* controller was aborted, else a response with data, a response that is
\* not ok, or a failed fetch
FetchOutcomes(c) ==
    IF c.aborted THEN {"AbortError"} ELSE {"data", "not ok", "failed"}

\* getSafetyAnalysis of invocation k from its await to its end (the try,
\* the catch and the finally), and the then-callback of the effect's timer
safetySettles(k, outcome) ==
    /\ safetyCalls' = [safetyCalls EXCEPT ![k].pc = "done"]
    /\ safetyLoading' = FALSE
    /\ safetyError' = IF outcome \in {"not ok", "failed"} THEN outcome
                      ELSE safetyError
    /\ safetyData' = IF outcome = "data"
                     THEN [address |-> safetyCalls[k].address, call |-> k]
                     ELSE safetyData
    /\ UNCHANGED <<rawAddress, borough, lastSafetyAddressRef,
                   lastSafetyBoroughRef, safetyTimer, safetyRequestRef>>

SafetySettles ==
    \E k \in 1..Len(safetyCalls) :
        /\ safetyCalls[k].pc = "fetch"
        /\ \E outcome \in FetchOutcomes(safetyCalls[k]) : safetySettles(k, outcome)

NextSafety ==
    \/ ListingSet /\ UNCHANGED <<pageVars, messageVars>>
    \/ SafetyTimer /\ UNCHANGED <<pageVars, messageVars>>
    \/ SafetySettles /\ UNCHANGED <<pageVars, messageVars>>

SpecSafety == InitPopup /\ [][NextSafety]_vars

\* The newest getSafetyAnalysis invocation is awaiting its request
NewestInFlight ==
    /\ safetyCalls # << >>
    /\ safetyCalls[Len(safetyCalls)].pc = "fetch"

\* C25 (as claimed): the completion of a request that a newer one has
\* aborted changes neither safetyData nor safetyError nor safetyLoading;
\* safetyLoading is true while the newest request is in flight; safetyData
\* is only set from the request started last.
C25_AbortedRequestIsSilent ==
    /\ [](NewestInFlight => safetyLoading)
    /\ [][ /\ \A k \in 1..Len(safetyCalls) :
                 ( /\ k < Len(safetyCalls)
                   /\ safetyCalls[k].pc = "fetch"
                   /\ safetyCalls'[k].pc = "done" ) =>
                 UNCHANGED <<safetyData, safetyError, safetyLoading>>
           /\ (safetyData' # safetyData /\ safetyData' # NoData) =>
                 safetyData'.call = Len(safetyCalls) ]_vars

\* C25 without the loading flag: the completion of an aborted request sets
\* neither safetyData nor safetyError, and safetyData is only set from the
\* request started last.
C25_AbortedRequestSetsNoResult ==
    [][ /\ \A k \in 1..Len(safetyCalls) :
              ( /\ k < Len(safetyCalls)
                /\ safetyCalls[k].pc = "fetch"
                /\ safetyCalls'[k].pc = "done" ) =>
              UNCHANGED <<safetyData, safetyError>>
        /\ (safetyData' # safetyData /\ safetyData' # NoData) =>
              safetyData'.call = Len(safetyCalls) ]_vars

\* C26: a calculateRoute call made while a request is running returns at
\* its guard: it changes nothing of the planner (no lookup is issued, the
\* running request, the routes, the selection, the markers and the history
\* stay as they are) and nothing on the map; and a request only starts
\* when none is running.
C26_OneRequestInFlight ==
    [][ /\ (autoStart = "pending" /\ autoStart' = "ran busy") =>
              UNCHANGED <<crimeData, planVars, mapVars>>
        /\ (pc' = "geocoding" /\ (pc # "geocoding" \/ closure' # closure)) =>
              (pc = "idle" /\ ~isCalculating) ]_vars

\* C26's case: the user has pressed Calculate within a second of the
\* mount, and the URL timer has run calculateRoute while that request was
\* awaiting its lookups; the request is still awaiting them
C26_Witness ==
    /\ autoStart = "ran busy"
    /\ pc = "geocoding"
    /\ clock = 0
    /\ isCalculating
    /\ closure.startLocation = t_Origin
    /\ closure.endLocation = t_Destination

----------------------------------------------------------------------------
(* The planning session under the assumption that every HTTP call returns  *)
(* or fails: a request that awaits its lookups or its routing response is  *)
(* resumed                                                                 *)

GeocodeSettles == GeocodeReturn /\ UNCHANGED outsideVars

RouteSettles == RouteReturn /\ UNCHANGED outsideVars

NextLive ==
    \/ CalculateRouteStart /\ UNCHANGED outsideVars
    \/ GeocodeSettles
    \/ RouteSettles
    \/ ChangeTransportMode /\ UNCHANGED outsideVars

SpecLive ==
    /\ InitMap
    /\ [][NextLive]_vars
    /\ WF_vars(GeocodeSettles)
    /\ WF_vars(RouteSettles)

\* C27: isCalculating is true exactly while a request is in flight, and
\* every request in flight comes to its end with isCalculating false.
C27_RequestEnds ==
    /\ [](isCalculating <=> pc # "idle")
    /\ (pc # "idle") ~> (pc = "idle" /\ ~isCalculating)

\* C27's case: a request has ended with alternatives, a second one has run
\* through its lookups and ended on a routing failure, and isCalculating is
\* false again
C27_Witness ==
    /\ ~isCalculating
    /\ pc = "idle"
    /\ Len(savedRoutes) = 1
    /\ savedRoutes[1].timestamp = 2
    /\ startResp = "match"
    /\ endResp = "match"
    /\ routesData = << >>
    /\ clock > 2

----------------------------------------------------------------------------
(* The selector's emitted list against the candidate pool *)

\* C28 (as claimed): a single emitted entry of type fastest_safest has the
\* least duration and the greatest safetyScore of all scored alternatives.
C28_SingleEntryIsBest ==
    (Selected /\ Len(routes) = 1 /\ routes[1].type = "fastest_safest") =>
        \A i \in 1..Len(processedRoutes) :
            /\ routes[1].details.duration_seconds
                  <= processedRoutes[i].details.duration_seconds
            /\ routes[1].safetyScore >= processedRoutes[i].safetyScore

\* C29 (as claimed): of two emitted entries, the safest has a strictly
\* greater safetyScore than the fastest, and the fastest takes no longer
\* than the safest.
C29_SafestStrictlySafer ==
    (Selected /\ Len(routes) = 2) =>
        LET fastest == routes[findType(routes, "fastest")]
            safest == routes[findType(routes, "safest")]
        IN  /\ findType(routes, "fastest") # 0
            /\ findType(routes, "safest") # 0
            /\ safest.safetyScore > fastest.safetyScore
            /\ fastest.details.duration_seconds
                  <= safest.details.duration_seconds

\* ---------------------------------------------------------------------
\* The range of the score and the grades at its ends

\* The density is 0 at every sampled point of the scored polyline
ClearOfIncidents == \A i \in Multiples(5) : DensityAt(i) = 0

\* C30: the unrounded score lies between 22.5 and 90, so it never reaches 0
\* and the lowest score, 22.5, has grade F; a polyline with points is graded
\* A exactly when incident data is present and the density is 0 at every
\* sampled point; scored with no incident data it gets 85 and grade B.
C30_ScoreRange ==
    Scored =>
        /\ RLe(Rat(45, 2), call.result)
        /\ RLe(call.result, RInt(90))
        /\ REq(call.result, Rat(45, 2)) => getSafetyGrade(call.result) = "F"
        /\ Len(call.arg) > 0 =>
               (getSafetyGrade(call.result) = "A"
                    <=> (Len(crimeData) > 0 /\ ClearOfIncidents))
        /\ Len(crimeData) = 0 =>
               /\ REq(call.result, RInt(85))
               /\ getSafetyGrade(call.result) = "B"

\* C30 witness: a polyline scored at the floor, both terms past their caps
C30_Witness ==
    /\ Scored
    /\ Len(call.arg) > 0
    /\ DensityAt(0) > 750
    /\ REq(call.result, Rat(45, 2))
    /\ getSafetyGrade(call.result) = "F"

====
